---- MODULE Spec2Model ----
(***************************************************************************)
(* The Upload page of bouquet (src/src/pages/Upload.tsx) as a state        *)
(* machine.  The React state of the component (transfers, files,           *)
(* cleanPrivateData), the destination list handed in by useServers, and    *)
(* every running invocation of the async function upload() with the        *)
(* values its closure captured at the render that created it.              *)
(*                                                                         *)
(* The entries of the transfers map are JavaScript objects that the code   *)
(* shares between the state map, the copies made by {...ut} and the        *)
(* closures, and mutates in place.  They live in `heap`, and the maps hold *)
(* references into it.                                                     *)
(***************************************************************************)
EXTENDS Integers, Sequences, FiniteSets, TLC

\* ------------------------------------------------------------- bounds
\* Longest file selection the user builds.
MaxFiles == 2

\* Clicks on the upload button that are followed.
MaxUploads == 2

\* User actions that are followed while one invocation of upload() runs.
MaxDisturb == 1

\* ------------------------------------------------------------ universe
Names == {"A", "B"}

\* The destination lists useServers can hand to the component.
ServerLists == {<<"A", "B">>, <<"B">>}

\* The files the user can pick: a payload size and the bytes of it that
\* are embedded private metadata.
FileUniverse ==
  { [id |-> "a", size |-> 2, exif |-> 1],
    [id |-> "b", size |-> 1, exif |-> 0] }

\* Slots for the invocations of upload() that are followed at the same time.
Runs == {1, 2}

\* Spec follows one invocation at a time.
OneAtATime == {1}

NoRef == 0
Refs == 1 .. (Cardinality(Names) * (1 + Cardinality(Runs)))

VARIABLES
  servers,           \* useServers(): the destination list, in declaration order
  transfers,         \* useState transfers: name -> reference of its entry (NoRef: no key)
  heap,              \* the TransferStats objects: reference -> {enabled, size, transferred}
  files,             \* useState files: the current selection
  cleanPrivateData,  \* useState cleanPrivateData
  mounted,           \* the component is rendered (FALSE once a render has thrown)
  run,               \* the invocations of upload(): closure, position, calls made
  uploads,           \* clicks on the upload button so far
  blobs,             \* BlobList: the blobs prop
  mode               \* BlobList: useState mode

vars == <<servers, transfers, heap, files, cleanPrivateData, mounted, run, uploads,
          blobs, mode>>

\* ------------------------------------------------------------- helpers
TransferStats(e, s, t) == [enabled |-> e, size |-> s, transferred |-> t]

\* The content of a heap cell no map refers to.
FreeCell == TransferStats(FALSE, 0, 0)

NoKeys == [n \in Names |-> NoRef]

Range(s) == {s[i] : i \in DOMAIN s}

Min(S) == CHOOSE x \in S : \A y \in S : x <= y

RECURSIVE Smallest(_, _)
\* The k smallest elements of S, ascending.
Smallest(S, k) ==
  IF k = 0 THEN <<>>
  ELSE LET m == Min(S) IN <<m>> \o Smallest(S \ {m}, k - 1)

RECURSIVE SumSizes(_)
SumSizes(fs) == IF fs = <<>> THEN 0 ELSE fs[1].size + SumSizes(Tail(fs))

IndexOf(s, n) == CHOOSE i \in DOMAIN s : s[i] = n

Active(rec) == rec.pc \in {"sanitize", "auth", "transport"}

\* The references a closure of a running invocation still holds.
ClosureRefs(rn) ==
  {rn[r].cTransfers[n] : r \in DOMAIN rn, n \in Names} \ {NoRef}

StateRefs(tr) == {tr[n] : n \in Names} \ {NoRef}

\* The references the state map and the closures hold, state first, each
\* map in the order of NameOrder, without repetition.
NameOrder == <<"A", "B">>

RECURSIVE Distinct(_)
Distinct(s) ==
  IF s = <<>> THEN <<>>
  ELSE LET d == Distinct(SubSeq(s, 1, Len(s) - 1))
           x == s[Len(s)]
       IN IF x = NoRef \/ x \in Range(d) THEN d ELSE Append(d, x)

RECURSIVE Flatten(_)
Flatten(ss) == IF ss = <<>> THEN <<>> ELSE ss[1] \o Flatten(Tail(ss))

RunOrder(rn) == Smallest(DOMAIN rn, Cardinality(DOMAIN rn))

Held(tr, rn) ==
  Distinct([i \in DOMAIN NameOrder |-> tr[NameOrder[i]]]
           \o Flatten([j \in DOMAIN RunOrder(rn) |->
                 [i \in DOMAIN NameOrder |-> rn[RunOrder(rn)[j]].cTransfers[NameOrder[i]]]]))

\* Where an object is after collection: objects keep their identity, not
\* their address, so the held ones are moved to the lowest addresses.
Moved(held, x) == IF x = NoRef THEN NoRef ELSE IndexOf(held, x)

MovedMap(held, m) == [n \in Names |-> Moved(held, m[n])]

\* Objects nothing refers to any more are dropped.
Collect(h, tr, rn) ==
  LET held == Held(tr, rn)
  IN [x \in Refs |-> IF x \in DOMAIN held THEN h[held[x]] ELSE FreeCell]

CollectMap(tr, rn) == MovedMap(Held(tr, rn), tr)

CollectRuns(tr, rn) ==
  [q \in DOMAIN rn |-> [rn[q] EXCEPT !.cTransfers = MovedMap(Held(tr, rn), @)]]

IdleRun ==
  [pc |-> "idle", cServers |-> <<>>, cTransfers |-> NoKeys, cEnabled |-> {},
   cFiles |-> <<>>, filesToUpload |-> <<>>,
   si |-> 0, fi |-> 0, log |-> <<>>, fresh |-> FALSE, disturbed |-> 0,
   toggledOff |-> {}]

\* The record of a settled invocation is kept for one step, then dropped.
Settled(rn) ==
  [q \in DOMAIN rn |-> IF Active(rn[q]) THEN rn[q] ELSE IdleRun]

\* The authorization event an uploadBlob call is given; none for the
\* other entries of the log.
NoAuth == [file |-> "", label |-> "", call |-> 0]

Event(op, srv, k) == [op |-> op, srv |-> srv, k |-> k, uploadAuth |-> NoAuth]

\* -------------------------------------------------- pieces of the code
\* removeExifData (src/exif, imported at Upload.tsx:9): a new File without
\* the embedded metadata.
removeExifData(f) == [f EXCEPT !.size = f.size - f.exif, !.exif = 0]

\* A reset that leaves the destinations disabled.
ClearedEntryDisabled == TransferStats(FALSE, 0, 0)

\* The entry clearTransfers writes for every destination (line 70).
ClearedEntry == TransferStats(TRUE, 0, 0)

\* A checkbox that can only switch a destination on.
ToggledEntryEnabled(checked) == TransferStats(TRUE, 0, 0)

\* The entry the destination checkbox writes (line 117).
ToggledEntry(checked) == TransferStats(checked, 0, 0)

\* A reduce that drops its accumulator: (acc, f) => f.size.
TotalSizeOfLast(filesToUpload) ==
  IF filesToUpload = <<>> THEN 0 ELSE filesToUpload[Len(filesToUpload)].size

\* const totalSize = filesToUpload.reduce(...) (line 38).
TotalSize(filesToUpload) == SumSizes(filesToUpload)

\* newTransfers[server.name].size = totalSize, on an enabled entry (lines 44-46).
SizedEntry(entry, totalSize) ==
  IF entry.enabled THEN [entry EXCEPT !.size = totalSize] ELSE entry

\* An assignment in place of the addition: transferred = file.size.
CreditedEntryOverwrites(entry, file) == [entry EXCEPT !.transferred = file.size]

\* transfers[server.name].transferred += file.size (line 60).
CreditedEntry(entry, file) ==
  [entry EXCEPT !.transferred = entry.transferred + file.size]

\* An authorization requested once per file and kept for the destinations
\* that follow.
getUploadAuthOncePerFile(rec, file) ==
  LET first == Min({p \in DOMAIN rec.log :
                      rec.log[p].op = "auth" /\ rec.log[p].k = rec.fi})
  IN [file |-> file.id, label |-> "Upload Blob", call |-> first]

\* What BlossomClient.getUploadAuth(file, signEventTemplate, 'Upload Blob')
\* resolves to (line 57): an event signed for this file and this action,
\* a new one at every call; the call is the last entry of the log.
getUploadAuth(rec, file) ==
  [file |-> file.id, label |-> "Upload Blob", call |-> Len(rec.log)]

\* BlossomClient.uploadBlob(serverUrl, file, uploadAuth) (line 58).
uploadBlob(name, rec, uploadAuth) ==
  [Event("send", name, rec.fi) EXCEPT !.uploadAuth = uploadAuth]

\* A loop that does not look at the enabled flag.
LoopTakesAnyKey(rec, h, name) == rec.cTransfers[name] # NoRef

\* if (!transfers[server.name]?.enabled) continue;  read from the closure (line 52).
LoopTakes(rec, h, name) ==
  /\ rec.cTransfers[name] # NoRef
  /\ h[rec.cTransfers[name]].enabled

\* A loop that walks the destinations from the end of the list.
NextTakenLast(rec, h, from) ==
  LET taken == {i \in from .. Len(rec.cServers) : LoopTakes(rec, h, rec.cServers[i])}
  IN IF taken = {} THEN 0 ELSE CHOOSE i \in taken : \A j \in taken : j <= i

\* The index in the closure's servers, from `from` on, of the next
\* destination the loop of line 51 does not skip; 0 when there is none.
NextTaken(rec, h, from) ==
  LET taken == {i \in from .. Len(rec.cServers) : LoopTakes(rec, h, rec.cServers[i])}
  IN IF taken = {} THEN 0 ELSE Min(taken)

\* The loop of line 51 from index `from` up to its next await: skip what is
\* not enabled, resolve the base address (line 55; urlOk: serverInfo has
\* it), and call getUploadAuth for the first file (line 57).  A destination
\* with no file to send is passed at once (lines 63-64).  With no
\* destination left the function returns.
RECURSIVE EnterLoop(_, _, _, _)
EnterLoop(rec, h, from, urlOk) ==
  LET j == NextTaken(rec, h, from) IN
  IF j = 0 THEN [rec EXCEPT !.pc = "done", !.si = Len(rec.cServers) + 1, !.fi = 0]
  ELSE IF ~urlOk THEN [rec EXCEPT !.pc = "rejected", !.si = j, !.fi = 0]
  ELSE IF rec.filesToUpload = <<>>
  THEN EnterLoop([rec EXCEPT !.log = @ \o <<Event("invalidate", rec.cServers[j], 0),
                                            Event("clear", rec.cServers[j], 0)>>],
                 h, j + 1, urlOk)
  ELSE [rec EXCEPT !.pc = "auth", !.si = j, !.fi = 1,
                   !.log = Append(rec.log, Event("auth", rec.cServers[j], 1))]

\* setFiles([]) has been called by the invocation (line 64).
Cleared(rec) == \E i \in DOMAIN rec.log : rec.log[i].op = "clear"

\* A test that an empty array passes: if (filesToUpload).
HasFilesAlways(filesToUpload) == TRUE

\* if (filesToUpload && filesToUpload.length) (line 36).
HasFiles(filesToUpload) == Len(filesToUpload) > 0

\* The updater of lines 41-49 applied to the current state `tr`: it walks
\* the closure's servers and throws at the first one the state has no key
\* for, after having written the size of those before it.
FirstMissing(rec, tr) ==
  LET gone == {i \in DOMAIN rec.cServers : tr[rec.cServers[i]] = NoRef}
  IN IF gone = {} THEN 0 ELSE Min(gone)

SizedHeap(rec, tr, h) ==
  LET m == FirstMissing(rec, tr)
      upto == IF m = 0 THEN Len(rec.cServers) ELSE m - 1
      hit == {tr[rec.cServers[i]] : i \in 1 .. upto}
  IN [x \in Refs |->
        IF x \in hit THEN SizedEntry(h[x], TotalSize(rec.filesToUpload)) ELSE h[x]]

\* The state map, the heap and the invocations after a step, collected.
Commit(tr, h, rn) ==
  /\ transfers' = CollectMap(tr, rn)
  /\ heap' = Collect(h, tr, rn)
  /\ run' = CollectRuns(tr, rn)

\* Lines 36-57 for invocation r whose filesToUpload is complete in rec.
\* propagates: a throwing updater surfaces at the setTransfers call (a
\* synchronous render) instead of at a later render.
BeginTransfers(r, rec, urlOk, propagates) ==
  IF ~HasFiles(rec.filesToUpload)
  THEN /\ Commit(transfers, heap, [Settled(run) EXCEPT ![r] = [rec EXCEPT !.pc = "done"]])
       /\ UNCHANGED <<servers, files, cleanPrivateData, mounted>>
  ELSE LET threw == mounted /\ FirstMissing(rec, transfers) # 0
           h1 == IF mounted THEN SizedHeap(rec, transfers, heap) ELSE heap
           rec0 == [rec EXCEPT !.cFiles = <<>>]
           rec1 == IF threw /\ propagates
                   THEN [rec0 EXCEPT !.pc = "rejected"]
                   ELSE EnterLoop(rec0, h1, 1, urlOk)
       IN /\ mounted' = (mounted /\ ~threw)
          /\ Commit(transfers, h1, [Settled(run) EXCEPT ![r] = rec1])
          /\ files' = IF Cleared(rec1) /\ mounted' THEN <<>> ELSE files
          /\ UNCHANGED <<servers, cleanPrivateData>>

\* clearTransfers (lines 69-71): a new map with a new entry per destination.
ClearedLedger(list, h, rn) ==
  LET fresh == Smallest(Refs \ ClosureRefs(rn), Len(list))
      tr == [n \in Names |-> IF n \in Range(list) THEN fresh[IndexOf(list, n)] ELSE NoRef]
  IN [tr |-> tr,
      heap |-> [x \in Refs |-> IF x \in Range(fresh) THEN ClearedEntry ELSE h[x]]]

\* A user action or another click while an invocation runs.
Disturb(rn) ==
  [q \in DOMAIN rn |->
     IF Active(rn[q]) THEN [rn[q] EXCEPT !.disturbed = @ + 1] ELSE IdleRun]

\* The invocations after the checkbox of n was set to `checked`: one that
\* has sized the ledger and not yet come to n in its loop of line 51 notes
\* that n was switched off on its way, and forgets it when n is switched
\* on again.
NotedToggle(rn, n, checked) ==
  [q \in DOMAIN rn |->
     LET rec == rn[q]
         ahead == {rec.cServers[i] : i \in (rec.si + 1) .. Len(rec.cServers)}
     IN IF rec.pc \in {"auth", "transport"} /\ n \in ahead
        THEN [rec EXCEPT !.toggledOff = IF checked THEN @ \ {n} ELSE @ \cup {n}]
        ELSE rec]

\* The user acts at most MaxDisturb times while an invocation runs.
MayDisturb == \A q \in DOMAIN run : Active(run[q]) => run[q].disturbed < MaxDisturb

LedgerIsFresh ==
  \A n \in Names : transfers[n] # NoRef =>
     heap[transfers[n]].size = 0 /\ heap[transfers[n]].transferred = 0

EnabledNow ==
  {n \in Range(servers) : transfers[n] # NoRef /\ heap[transfers[n]].enabled}

\* ------------------------------------------------------------- actions
\* The component after its first render and the effect of lines 73-75.
InitWith(slots) ==
  /\ servers \in ServerLists
  /\ run = [r \in slots |-> IdleRun]
  /\ LET l == ClearedLedger(servers, [x \in Refs |-> FreeCell], run)
     IN /\ transfers = l.tr
        /\ heap = l.heap
  /\ files = <<>>
  /\ cleanPrivateData = TRUE
  /\ mounted = TRUE
  /\ uploads = 0
  /\ blobs = <<>>
  /\ mode = "list"

Init == InitWith(OneAtATime)

\* useServers hands in a list and the effect of lines 73-75 runs clearTransfers.
ServersChange ==
  /\ mounted /\ MayDisturb
  /\ \E list \in ServerLists :
       LET rn == [q \in DOMAIN run |-> [Disturb(run)[q] EXCEPT !.toggledOff = {}]]
           l == ClearedLedger(list, heap, rn)
       IN /\ servers' = list
          /\ Commit(l.tr, l.heap, rn)
  /\ UNCHANGED <<files, cleanPrivateData, mounted, uploads, blobs, mode>>

\* The destination checkbox of name n (lines 111-119): checked is the
\* opposite of what the controlled checkbox shows.
Toggle ==
  /\ mounted /\ MayDisturb
  /\ \E n \in Range(servers) :
       LET checked == ~(transfers[n] # NoRef /\ heap[transfers[n]].enabled)
           rn == NotedToggle(Disturb(run), n, checked)
           kept == (StateRefs(transfers) \ {transfers[n]}) \cup ClosureRefs(rn)
           ref == Min(Refs \ kept)
       IN Commit([transfers EXCEPT ![n] = ref],
                 [heap EXCEPT ![ref] = ToggledEntry(checked)], rn)
  /\ UNCHANGED <<servers, files, cleanPrivateData, mounted, uploads, blobs, mode>>

\* The "Clean private data" checkbox (line 138).
SetCleanPrivateData ==
  /\ mounted /\ MayDisturb
  /\ cleanPrivateData' = ~cleanPrivateData
  /\ Commit(transfers, heap, Disturb(run))
  /\ UNCHANGED <<servers, files, mounted, uploads, blobs, mode>>

Picks == {<<f>> : f \in FileUniverse} \cup {<<f, g>> : f, g \in FileUniverse}

\* setFiles(prevFiles => [...prevFiles, ...newFiles]) (lines 81, 90).
Appended(prevFiles, newFiles) == prevFiles \o newFiles

\* handleFileChange (lines 77-83).
handleFileChange ==
  /\ mounted /\ MayDisturb
  /\ \E newFiles \in Picks :
       /\ Len(files) + Len(newFiles) <= MaxFiles
       /\ files' = Appended(files, newFiles)
  /\ Commit(transfers, heap, Disturb(run))
  /\ UNCHANGED <<servers, cleanPrivateData, mounted, uploads, blobs, mode>>

\* handleDrop (lines 85-92).
handleDrop ==
  /\ mounted /\ MayDisturb
  /\ \E droppedFiles \in Picks :
       /\ Len(files) + Len(droppedFiles) <= MaxFiles
       /\ files' = Appended(files, droppedFiles)
  /\ Commit(transfers, heap, Disturb(run))
  /\ UNCHANGED <<servers, cleanPrivateData, mounted, uploads, blobs, mode>>

\* The slot a new invocation is followed in: the lowest one not running.
FreeSlot == Min({r \in DOMAIN run : ~Active(run[r])})

\* What the closure of upload() captured at the render the click sees.
Snapshot ==
  [pc |-> "sanitize", cServers |-> servers, cTransfers |-> transfers,
   cEnabled |-> EnabledNow, cFiles |-> files,
   filesToUpload |-> <<>>, si |-> 0, fi |-> 0, log |-> <<>>,
   fresh |-> (LedgerIsFresh /\ \A q \in DOMAIN run : ~Active(run[q])),
   disturbed |-> 0, toggledOff |-> {}]

\* Click on the upload button (line 146): upload() up to its first await.
\* With cleanPrivateData that is removeExifData of the first file (line
\* 30); without it the files are copied (line 32) and the transfers begin.
StartUpload ==
  /\ mounted /\ MayDisturb
  /\ uploads < MaxUploads
  /\ \E r \in DOMAIN run : ~Active(run[r])
  /\ uploads' = uploads + 1
  /\ UNCHANGED <<blobs, mode>>
  /\ \E urlOk, propagates \in BOOLEAN :
       LET r == FreeSlot
       IN IF files # <<>> /\ cleanPrivateData
          THEN /\ Commit(transfers, heap, [Disturb(run) EXCEPT ![r] = Snapshot])
               /\ UNCHANGED <<servers, files, cleanPrivateData, mounted>>
          ELSE BeginTransfers(r, [Snapshot EXCEPT !.filesToUpload = files], urlOk, propagates)

\* await removeExifData(f) settles (line 30).
SanitizeReturn ==
  \E r \in DOMAIN run :
    /\ run[r].pc = "sanitize"
    /\ UNCHANGED <<uploads, blobs, mode>>
    /\ \E ok, urlOk, propagates \in BOOLEAN :
         LET rec == run[r]
             f == rec.cFiles[Len(rec.filesToUpload) + 1]
             rec1 == [rec EXCEPT !.filesToUpload = Append(@, removeExifData(f))]
         IN IF ~ok
            THEN /\ Commit(transfers, heap,
                      [Settled(run) EXCEPT ![r] = [rec EXCEPT !.pc = "rejected"]])
                 /\ UNCHANGED <<servers, files, cleanPrivateData, mounted>>
            ELSE IF Len(rec1.filesToUpload) < Len(rec.cFiles)
            THEN /\ Commit(transfers, heap, [Settled(run) EXCEPT ![r] = rec1])
                 /\ UNCHANGED <<servers, files, cleanPrivateData, mounted>>
            ELSE BeginTransfers(r, rec1, urlOk, propagates)

\* await BlossomClient.getUploadAuth(...) settles (line 57); on success
\* uploadBlob is called (line 58).
AuthReturn ==
  \E r \in DOMAIN run :
    /\ run[r].pc = "auth"
    /\ \E ok \in BOOLEAN :
         LET rec == run[r]
             name == rec.cServers[rec.si]
         IN Commit(transfers, heap,
              [Settled(run) EXCEPT ![r] =
                 IF ok
                 THEN [rec EXCEPT !.pc = "transport",
                                  !.log = Append(@, uploadBlob(name, rec,
                                            getUploadAuth(rec, rec.filesToUpload[rec.fi])))]
                 ELSE [rec EXCEPT !.pc = "rejected"]])
    /\ UNCHANGED <<servers, files, cleanPrivateData, mounted, uploads, blobs, mode>>

\* await BlossomClient.uploadBlob(...) settles (line 58).  On success the
\* closure's entry is credited (line 60); after the last file the blobs
\* query is invalidated and the selection cleared (lines 63-64), and the
\* loop goes on to the next destination.
TransportReturn ==
  \E r \in DOMAIN run :
    /\ run[r].pc = "transport"
    /\ UNCHANGED <<uploads, blobs, mode>>
    /\ \E ok, urlOk \in BOOLEAN :
         LET rec == run[r]
             name == rec.cServers[rec.si]
             ref == rec.cTransfers[name]
             file == rec.filesToUpload[rec.fi]
             h1 == [heap EXCEPT ![ref] = CreditedEntry(@, file)]
             last == rec.fi = Len(rec.filesToUpload)
             rec1 == [rec EXCEPT !.log = Append(@, Event("sent", name, rec.fi))]
             rec2 == IF ~last
                     THEN [rec1 EXCEPT !.fi = rec.fi + 1,
                                       !.pc = "auth",
                                       !.log = Append(@, Event("auth", name, rec.fi + 1))]
                     ELSE EnterLoop(
                            [rec1 EXCEPT !.log = @ \o <<Event("invalidate", name, 0),
                                                        Event("clear", name, 0)>>],
                            h1, rec.si + 1, urlOk)
         IN IF ~ok
            THEN /\ Commit(transfers, heap,
                      [Settled(run) EXCEPT ![r] = [rec EXCEPT !.pc = "rejected"]])
                 /\ UNCHANGED <<servers, files, cleanPrivateData, mounted>>
            ELSE /\ Commit(transfers, h1, [Settled(run) EXCEPT ![r] = rec2])
                 /\ files' = IF last /\ mounted THEN <<>> ELSE files
                 /\ UNCHANGED <<servers, cleanPrivateData, mounted>>

Next ==
  \/ ServersChange
  \/ Toggle
  \/ SetCleanPrivateData
  \/ handleFileChange
  \/ handleDrop
  \/ StartUpload
  \/ SanitizeReturn
  \/ AuthReturn
  \/ TransportReturn

Spec == Init /\ [][Next]_vars

\* The same component with two invocations of upload() followed at once:
\* the button of line 144 is not disabled while an invocation runs.
InitOverlap == InitWith(Runs)

SpecOverlap == InitOverlap /\ [][Next]_vars

\* ------------------------------------------------------------ BlobList
\* The component BlobList (src/src/components/BlobList/BlobList.tsx): its
\* blobs prop and its view mode.  A MIME type is the sequence of its parts,
\* a blob without a type has the empty one.
MaxBlobs == 3

NoType == <<>>

BlobUniverse ==
  { [sha256 |-> "1", type |-> <<"image", "/", "png">>],
    [sha256 |-> "2", type |-> <<"audio", "/", "mpeg">>],
    [sha256 |-> "3", type |-> <<"video", "/", "mp4">>],
    [sha256 |-> "4", type |-> <<"application", "/", "pdf">>],
    [sha256 |-> "5", type |-> <<"application", "/", "zip">>],
    [sha256 |-> "6", type |-> NoType] }

\* The lists of blobs the parent can hand in: no blob twice.
BlobLists ==
  UNION { {bs \in [1 .. n -> BlobUniverse] : \A i, j \in 1 .. n : i # j => bs[i] # bs[j]}
          : n \in 0 .. MaxBlobs }

\* b.type?.startsWith(prefix)
StartsWith(type, prefix) ==
  /\ Len(prefix) <= Len(type)
  /\ SubSeq(type, 1, Len(prefix)) = prefix

\* blobs.filter(b => b.type?.startsWith(prefix)) (lines 33, 38, 61, 78); the
\* order the sort gives plays no part in what follows.
Filtered(bs, prefix) == SelectSeq(bs, LAMBDA b : StartsWith(b.type, prefix))

images(bs) == Filtered(bs, <<"image", "/">>)
videos(bs) == Filtered(bs, <<"video", "/">>)
audioFiles(bs) == Filtered(bs, <<"audio", "/">>)
docs(bs) == Filtered(bs, <<"application", "/", "pdf">>)

\* The effect of lines 82-97, run after a render with mode m and blobs bs.
FallBack(m, bs) ==
  CASE m = "video" -> IF Len(videos(bs)) = 0 THEN "list" ELSE m
    [] m = "audio" -> IF Len(audioFiles(bs)) = 0 THEN "list" ELSE m
    [] m = "gallery" -> IF Len(images(bs)) = 0 THEN "list" ELSE m
    [] m = "docs" -> IF Len(docs(bs)) = 0 THEN "list" ELSE m
    [] OTHER -> m

\* The disabled attribute of the mode buttons (lines 131, 139, 147, 155);
\* the list button has none (line 126).
GalleryDisabled(bs) == Len(images(bs)) = 0
AudioDisabled(bs) == Len(audioFiles(bs)) = 0
VideoDisabled(bs) == Len(videos(bs)) = 0
DocsDisabled(bs) == Len(videos(bs)) = 0

Disabled(m, bs) ==
  CASE m = "gallery" -> GalleryDisabled(bs)
    [] m = "audio" -> AudioDisabled(bs)
    [] m = "video" -> VideoDisabled(bs)
    [] m = "docs" -> DocsDisabled(bs)
    [] OTHER -> FALSE

UploadUnchanged ==
  UNCHANGED <<servers, transfers, heap, files, cleanPrivateData, mounted, run, uploads>>

\* The parent renders BlobList with another list; the effect follows.
BlobsChange ==
  /\ \E bs \in BlobLists :
       /\ blobs' = bs
       /\ mode' = FallBack(mode, bs)
  /\ UploadUnchanged

\* onClick={() => setMode(m)} of a button that is not disabled, and the
\* effect that follows the render (lines 126-160).
ClickList ==
  /\ mode' = FallBack("list", blobs)
  /\ UNCHANGED blobs
  /\ UploadUnchanged

ClickGallery ==
  /\ ~GalleryDisabled(blobs)
  /\ mode' = FallBack("gallery", blobs)
  /\ UNCHANGED blobs
  /\ UploadUnchanged

ClickAudio ==
  /\ ~AudioDisabled(blobs)
  /\ mode' = FallBack("audio", blobs)
  /\ UNCHANGED blobs
  /\ UploadUnchanged

ClickVideo ==
  /\ ~VideoDisabled(blobs)
  /\ mode' = FallBack("video", blobs)
  /\ UNCHANGED blobs
  /\ UploadUnchanged

ClickDocs ==
  /\ ~DocsDisabled(blobs)
  /\ mode' = FallBack("docs", blobs)
  /\ UNCHANGED blobs
  /\ UploadUnchanged

NextBlobList ==
  \/ BlobsChange
  \/ ClickList
  \/ ClickGallery
  \/ ClickAudio
  \/ ClickVideo
  \/ ClickDocs

SpecBlobList == Init /\ [][NextBlobList]_vars

TypeOK ==
  /\ servers \in ServerLists
  /\ transfers \in [Names -> Refs \cup {NoRef}]
  /\ \A n \in Names : (transfers[n] # NoRef) <=> (n \in Range(servers))
  /\ files \in Seq(FileUniverse) /\ Len(files) <= MaxFiles
  /\ uploads \in 0 .. MaxUploads
  /\ blobs \in BlobLists
  /\ mode \in {"list", "gallery", "audio", "video", "docs"}
  /\ \A r \in DOMAIN run :
       run[r].pc \in {"idle", "sanitize", "auth", "transport", "done", "rejected"}

\* ---------------------------------------------------- what is observed
\* The ledger entry an observer reads for destination n.
Ledger(n) == heap[transfers[n]]

\* The ledger as a whole: what each destination's key holds.
NoEntry == [enabled |-> FALSE, size |-> -1, transferred |-> -1]

LedgerView == [n \in Names |-> IF transfers[n] = NoRef THEN NoEntry ELSE Ledger(n)]

HasSettled(rec) == rec.pc \in {"done", "rejected"}

\* The calls of kind op the invocation has made for destination n.
Calls(rec, op, n) == {i \in DOMAIN rec.log : rec.log[i].op = op /\ rec.log[i].srv = n}

\* The state's entry of n is still the object the closure captured: the
\* user has neither toggled n nor changed the destination list since the click.
SameEntry(rec, n) == transfers[n] # NoRef /\ transfers[n] = rec.cTransfers[n]

\* The invocation got as far as the transfers: sanitization is over and
\* there is something to send.
Transferring(rec) == rec.pc # "idle" /\ rec.cFiles = <<>> /\ rec.filesToUpload # <<>>

\* ------------------------------------------------------------------ C1
\* C1: every destination's ledger entry has transferred <= size, also
\* during and after a second batch on a ledger that was not reset.
C1_TransferredWithinSize ==
  mounted => \A n \in Range(servers) : Ledger(n).transferred <= Ledger(n).size

\* ------------------------------------------------------------------ C2
\* C2: a failure inside the loop of destination D (base address, Authorizer
\* or Transport) leaves every enabled destination after D with its own
\* authorize-and-transmit pass over all files of the batch.
C2_LaterDestinationsStillServed ==
  \A r \in DOMAIN run :
    LET rec == run[r] IN
    (rec.pc = "rejected" /\ rec.si >= 1 /\ rec.log # <<>>) =>
      \A i \in (rec.si + 1) .. Len(rec.cServers) :
        rec.cServers[i] \in rec.cEnabled =>
          \A k \in DOMAIN rec.filesToUpload :
            /\ \E e \in Calls(rec, "auth", rec.cServers[i]) : rec.log[e].k = k
            /\ \E e \in Calls(rec, "send", rec.cServers[i]) : rec.log[e].k = k

\* ------------------------------------------------------------------ C3
\* The Transport call for file k at the destination of index si failed:
\* the invocation was rejected right after calling uploadBlob.
TransportFailed(rec) ==
  /\ rec.pc = "rejected"
  /\ rec.log # <<>>
  /\ rec.log[Len(rec.log)].op = "send"

\* C3: when the Transport call for the k-th file fails at D, D's
\* transferred is the sum of the sizes of files 1..k-1 of the batch, and
\* every other destination's entry is what it would be had D not failed
\* (on a fresh ledger: an enabled one has received the whole batch).
C3_TransportFailureIsLocal ==
  \A r \in DOMAIN run :
    LET rec == run[r]
        D == rec.cServers[rec.si]
        k == rec.fi
    IN (mounted /\ TransportFailed(rec) /\ rec.disturbed = 0) =>
         /\ Ledger(D).transferred = SumSizes(SubSeq(rec.filesToUpload, 1, k - 1))
         /\ rec.fresh =>
              \A E \in rec.cEnabled \ {D} :
                Ledger(E) = TransferStats(TRUE, SumSizes(rec.filesToUpload),
                                          SumSizes(rec.filesToUpload))

\* ------------------------------------------------------------------ C4
\* C4: a batch started with a non-empty selection ends with the selection
\* empty, whether or not an Authorizer or Transport call failed.
C4_BatchEndsWithSelectionEmpty ==
  \A r \in DOMAIN run :
    (mounted /\ HasSettled(run[r]) /\ Transferring(run[r]) /\ run[r].log # <<>>) =>
      files = <<>>

\* ------------------------------------------------------------------ C5
\* C5: when a batch has ended, the cache-invalidation signal has been
\* issued exactly once for each destination enabled for the batch, also
\* when its loop ended by a failure, and never for a disabled one.
C5_InvalidatedOncePerEnabled ==
  \A r \in DOMAIN run :
    LET rec == run[r] IN
    (HasSettled(rec) /\ Transferring(rec) /\ rec.log # <<>>) =>
      \A n \in Names :
        Cardinality(Calls(rec, "invalidate", n)) = IF n \in rec.cEnabled THEN 1 ELSE 0

\* ------------------------------------------------------------------ C6
\* C6: a destination that is disabled when a batch starts gets no
\* Authorizer or Transport call in that batch, and as long as the user does
\* not toggle it or change the destination list its ledger entry is
\* {enabled: false, size: 0, transferred: 0}, during the batch and after.
C6_DisabledDestinationUntouched ==
  /\ mounted =>
       \A n \in Range(servers) :
         ~Ledger(n).enabled => Ledger(n) = TransferStats(FALSE, 0, 0)
  /\ \A r \in DOMAIN run :
       LET rec == run[r] IN
       \A n \in Range(rec.cServers) \ rec.cEnabled :
         /\ Calls(rec, "auth", n) = {}
         /\ Calls(rec, "send", n) = {}
         /\ (mounted /\ SameEntry(rec, n)) => Ledger(n) = TransferStats(FALSE, 0, 0)

\* A batch has sent its files to one destination and passed over another
\* that was disabled at the click and left alone since.
C6_Witness ==
  \E r \in DOMAIN run :
    LET rec == run[r] IN
    /\ mounted /\ rec.pc = "done" /\ rec.filesToUpload # <<>>
    /\ \E n \in Range(rec.cServers) \ rec.cEnabled : SameEntry(rec, n)
    /\ \E n \in rec.cEnabled : Calls(rec, "sent", n) # {}

\* ------------------------------------------------------------------ C7
\* C7: from the sizing on and until the batch ends, and so at the first
\* Transport call, the size of every destination enabled for the batch is
\* the sum of the sizes of the batch's sanitized files (the entry being the
\* one the batch started with: not toggled, destination list not changed).
C7_SizeIsBatchTotal ==
  \A r \in DOMAIN run :
    LET rec == run[r] IN
    (mounted /\ Transferring(rec)) =>
      \A D \in rec.cEnabled :
        SameEntry(rec, D) => Ledger(D).size = SumSizes(rec.filesToUpload)

\* The first Transport call of a destination is under way, in a batch of
\* two files of which one was changed by the sanitizer, on a ledger that
\* an earlier batch has left its numbers in.
C7_Witness ==
  \E r \in DOMAIN run :
    LET rec == run[r] IN
    /\ mounted /\ rec.pc = "transport" /\ rec.fi = 1
    /\ Len(rec.filesToUpload) = 2
    /\ \E i \in DOMAIN rec.filesToUpload : rec.filesToUpload[i] \notin FileUniverse
    /\ SameEntry(rec, rec.cServers[rec.si])
    /\ ~rec.fresh

\* ------------------------------------------------------------------ C8
AllCleared(list) ==
  [n \in Names |-> IF n \in Range(list) THEN TransferStats(TRUE, 0, 0) ELSE NoEntry]

\* C8: when the destination list changes, the reset leaves a ledger whose
\* keys are the names of the current destinations, every entry being
\* {enabled: true, size: 0, transferred: 0}, whatever it held before; run
\* again with the same list on that ledger it changes nothing.
C8_ResetClearsLedger ==
  [][ServersChange =>
       /\ LedgerView' = AllCleared(servers')
       /\ (servers' = servers /\ LedgerView = AllCleared(servers)) =>
            LedgerView' = LedgerView]_vars

\* The reset has run while a batch was under way whose closure still holds
\* the entries of before, one of them with bytes transferred.
C8_Witness ==
  \E r \in DOMAIN run :
    LET rec == run[r] IN
    /\ mounted /\ Active(rec) /\ rec.disturbed > 0
    /\ Len(servers) = 2
    /\ \A n \in Range(servers) : ~SameEntry(rec, n)
    /\ \E n \in Names : rec.cTransfers[n] # NoRef /\ heap[rec.cTransfers[n]].transferred > 0
    /\ LedgerView = AllCleared(servers)

\* ------------------------------------------------------------------ C9
\* The batch ran alone from a fresh ledger to its end with every call
\* succeeding, the user doing nothing meanwhile.
CleanSuccess(rec) == rec.pc = "done" /\ rec.fresh /\ rec.disturbed = 0

LedgerAfterSuccess(rec) ==
  \A n \in Range(rec.cServers) :
    Ledger(n) = IF n \in rec.cEnabled
                THEN TransferStats(TRUE, SumSizes(rec.filesToUpload),
                                   SumSizes(rec.filesToUpload))
                ELSE TransferStats(FALSE, 0, 0)

C10_EmptySelectionIsNoOp ==
  [][(uploads' = uploads + 1 /\ files = <<>>) =>
       /\ LedgerView' = LedgerView
       /\ files' = files /\ servers' = servers /\ cleanPrivateData' = cleanPrivateData
       /\ mounted' = mounted
       /\ run'[FreeSlot].pc = "done" /\ run'[FreeSlot].log = <<>>]_vars

\* The click came with nothing selected, on a ledger holding the numbers
\* of an earlier batch, with a destination enabled.
C10_Witness ==
  \E r \in DOMAIN run :
    LET rec == run[r] IN
    /\ rec.pc = "done" /\ rec.cFiles = <<>> /\ rec.filesToUpload = <<>>
    /\ rec.cEnabled # {} /\ ~LedgerIsFresh

\* ----------------------------------------------------------------- C11
\* removeExifData rejected for a file of the selection (line 30): the
\* invocation ended there, before the transfers.
SanitizeFailed(rec) == rec.pc = "rejected" /\ rec.cFiles # <<>>

\* C11: when the sanitization of one file of the batch fails, only that
\* file is dropped: the invocation does not end before every other file of
\* the selection has been authorized and transmitted to every destination
\* enabled for the batch.
C11_SanitizeFailureDropsOneFile ==
  \A r \in DOMAIN run :
    LET rec == run[r] IN
    (SanitizeFailed(rec) /\ Len(rec.cFiles) > 1) =>
      \A D \in rec.cEnabled :
        /\ Cardinality(Calls(rec, "auth", D)) >= Len(rec.cFiles) - 1
        /\ Cardinality(Calls(rec, "sent", D)) >= Len(rec.cFiles) - 1

\* ----------------------------------------------------------------- C12
\* C12: while a destination enabled for the batch is still in its pass
\* over the files, the batch has not cleared the file selection: the clear
\* comes after the loop of the last enabled destination only.
C12_ClearAfterLastDestination ==
  \A r \in DOMAIN run :
    LET rec == run[r] IN
    (Transferring(rec) /\ rec.pc \in {"auth", "transport"}) => ~Cleared(rec)

\* ----------------------------------------------------------------- C13
\* C13: a destination the user switched off while the batch was running,
\* after the sizing and before the loop came to it, is skipped: the batch
\* makes no Authorizer and no Transport call for it.
C13_ToggledOffIsSkipped ==
  \A r \in DOMAIN run :
    LET rec == run[r] IN
    \A D \in rec.toggledOff :
      Calls(rec, "auth", D) = {} /\ Calls(rec, "send", D) = {}

\* ----------------------------------------------------------------- C14
\* The invocation is in the file loop of destination n (lines 56-62), where
\* it writes the entry its closure holds for n.
InLoopOf(rec, n) == rec.pc \in {"auth", "transport"} /\ rec.cServers[rec.si] = n

\* C14: at every instant and for each destination, at most one transfer
\* loop in progress writes that destination's ledger entry, also when the
\* upload button is pressed again before the earlier batch has finished.
C14_OneWriterPerEntry ==
  \A n \in Names :
    \A r1, r2 \in DOMAIN run :
      (r1 # r2 /\ InLoopOf(run[r1], n) /\ InLoopOf(run[r2], n)) =>
        run[r1].cTransfers[n] # run[r2].cTransfers[n]

\* ----------------------------------------------------------------- C15
\* The external calls in the log of an invocation: getUploadAuth and
\* uploadBlob.
IsCall(e) == e.op \in {"auth", "send"}

\* Destination d, file j comes before destination e, file k in the order
\* of the batch: destinations as declared, files as selected.
ComesBefore(rec, a, b) ==
  \/ IndexOf(rec.cServers, a.srv) < IndexOf(rec.cServers, b.srv)
  \/ a.srv = b.srv /\ a.k < b.k
  \/ a.srv = b.srv /\ a.k = b.k /\ a.op = "auth" /\ b.op = "send"

\* C15: within one batch the enabled destinations are served one after
\* another in declaration order and the files of a destination in
\* selection order; no call for a later file or destination begins before
\* the Transport call before it has returned, so at most one external call
\* of the batch is outstanding.
C15_OneCallAtATimeInOrder ==
  \A r \in DOMAIN run :
    LET rec == run[r]
        log == rec.log
    IN /\ \A p, q \in DOMAIN log :
            (p < q /\ IsCall(log[p]) /\ IsCall(log[q])) =>
              /\ ComesBefore(rec, log[p], log[q])
              /\ log[p].op = "send" =>
                   \E m \in (p + 1) .. (q - 1) :
                     log[m] = Event("sent", log[p].srv, log[p].k)
       /\ Active(rec) =>
            Cardinality({p \in DOMAIN log : log[p].op = "auth"})
              - Cardinality({p \in DOMAIN log : log[p].op = "sent"}) <= 1
       /\ rec.pc \in {"auth", "transport"} =>
            \A i \in 1 .. (rec.si - 1) :
              rec.cServers[i] \in rec.cEnabled =>
                \A k \in DOMAIN rec.filesToUpload :
                  Calls(rec, "sent", rec.cServers[i])
                    \cap {p \in DOMAIN log : log[p].k = k} # {}

\* The Authorizer call for the second file of the second destination is
\* pending, both destinations enabled.
C15_Witness ==
  \E r \in DOMAIN run :
    LET rec == run[r] IN
    /\ rec.pc = "auth" /\ rec.si = 2 /\ rec.fi = 2
    /\ rec.cEnabled = {"A", "B"}

\* ----------------------------------------------------------------- C16
\* C16: every Transport call for file f at destination D comes right after
\* an Authorizer call made for f with the label "Upload Blob" in D's loop,
\* and is given the authorization that call returned; no authorization is
\* given to two Transport calls, or to one for another file or destination.
C16_OwnAuthorizationPerTransport ==
  \A r \in DOMAIN run :
    LET rec == run[r]
        log == rec.log
    IN \A p \in DOMAIN log :
         log[p].op = "send" =>
           /\ p > 1
           /\ log[p - 1] = Event("auth", log[p].srv, log[p].k)
           /\ log[p].uploadAuth = [file |-> rec.filesToUpload[log[p].k].id,
                                   label |-> "Upload Blob", call |-> p - 1]
           /\ \A q \in DOMAIN log :
                (q # p /\ log[q].op = "send") => log[q].uploadAuth # log[p].uploadAuth

\* The same file has been transmitted to two destinations, and a second
\* file to the first of them.
C16_Witness ==
  \E r \in DOMAIN run :
    LET rec == run[r] IN
    /\ rec.pc = "done" /\ Len(rec.filesToUpload) = 2
    /\ \A n \in {"A", "B"} : Cardinality(Calls(rec, "send", n)) = 2

\* ----------------------------------------------------------------- C17
\* The bytes of the batch whose Transport call to D has succeeded so far:
\* the files are sent in order, so they are the first ones of the batch.
SentBytes(rec, D) ==
  SumSizes(SubSeq(rec.filesToUpload, 1, Cardinality(Calls(rec, "sent", D))))

\* C17: while a batch is running, the entry observers read for each
\* destination D enabled for the batch has transferred equal to the sum of
\* the sizes of the batch's files whose Transport call to D has succeeded
\* so far (a sum that only grows), whatever the user does meanwhile and
\* whatever earlier batches left in the ledger.
C17_TransferredTracksSent ==
  \A r \in DOMAIN run :
    LET rec == run[r] IN
    (mounted /\ Transferring(rec) /\ rec.pc \in {"auth", "transport"}) =>
      \A D \in rec.cEnabled :
        transfers[D] # NoRef => Ledger(D).transferred = SentBytes(rec, D)

\* ----------------------------------------------------------------- C18
\* C18: toggling the checkbox of destination D makes D's ledger entry
\* {enabled: the chosen value, size: 0, transferred: 0}, when disabling and
\* when enabling, and leaves the entry of every other destination, the
\* file selection and the metadata-stripping flag as they were.
C18_ToggleResetsOneEntry ==
  [][Toggle =>
       /\ \E D \in Range(servers) :
            /\ LedgerView'[D] = TransferStats(~LedgerView[D].enabled, 0, 0)
            /\ \A n \in Names \ {D} : LedgerView'[n] = LedgerView[n]
       /\ files' = files
       /\ cleanPrivateData' = cleanPrivateData
       /\ servers' = servers]_vars

\* A destination was switched off in the middle of its loop, one file of
\* two sent, while the other destination keeps the numbers of its pass.
C18_Witness ==
  \E r \in DOMAIN run :
    LET rec == run[r] IN
    /\ mounted /\ Active(rec) /\ rec.disturbed > 0
    /\ \E D \in rec.cEnabled :
         /\ transfers[D] # NoRef /\ ~SameEntry(rec, D)
         /\ Ledger(D) = TransferStats(FALSE, 0, 0)
         /\ heap[rec.cTransfers[D]].transferred > 0
         /\ \E n \in Range(servers) \ {D} : Ledger(n).transferred > 0
    /\ files # <<>>

\* ----------------------------------------------------------------- C19
\* The selection holds exactly the files the invocation took at its start.
OnlyTheBatch(rec) ==
  /\ Len(files) = Len(rec.filesToUpload)
  /\ \A i \in DOMAIN files : files[i].id = rec.filesToUpload[i].id

\* C19: browsing and dropping append the new files to the end of the
\* selection, and a batch that empties the selection removes only the files
\* it took at its start: a file added while it ran is not removed without
\* having been transmitted.
C19_SelectionAdditiveBatchConsumesOwn ==
  [][/\ (handleFileChange \/ handleDrop) =>
          /\ Len(files') > Len(files)
          /\ SubSeq(files', 1, Len(files)) = files
     /\ (files # <<>> /\ files' = <<>>) =>
          \E r \in DOMAIN run :
            /\ run[r].pc = "transport"
            /\ Cleared(run'[r])
            /\ OnlyTheBatch(run[r])]_vars

\* ----------------------------------------------------------------- C20
Categories == {"gallery", "audio", "video", "docs"}

\* The blobs of the category a view mode shows.
CategoryOf(m, bs) ==
  CASE m = "gallery" -> images(bs)
    [] m = "audio" -> audioFiles(bs)
    [] m = "video" -> videos(bs)
    [] m = "docs" -> docs(bs)

\* C20: the button of each category view mode (gallery, audio, video,
\* docs) can be used exactly when the blob list holds at least one blob of
\* that category, a mode whose category has no blobs has fallen back to
\* 'list', and 'list' can always be chosen.
C20_ModeSelectableIffCategoryHasBlobs ==
  /\ \A m \in Categories : ~Disabled(m, blobs) <=> Len(CategoryOf(m, blobs)) > 0
  /\ ~Disabled("list", blobs)
  /\ mode \in Categories => Len(CategoryOf(mode, blobs)) > 0

====
